---- MODULE Spec2Model ----
(***************************************************************************)
(* The MediaWiki MCP server of src/index.ts: the MediaWikiClient session   *)
(* (loggedIn, editToken, cookies), its login / getEditToken / makeApiCall  *)
(* methods, the CallToolRequestSchema handler and the startup login.       *)
(*                                                                         *)
(* Every process (the startup login, each tool invocation) runs on one     *)
(* event loop: a step of the model is the code that runs between two       *)
(* network awaits.  makeApiCall awaits twice, on fetch() and on            *)
(* response.json(), so a call is sent in one step, its headers are read in *)
(* a second step and its body in a third.  The upstream wiki is the        *)
(* environment: it chooses the Set-Cookie header and the body of every     *)
(* response.  Strings built by concatenation are sequences of their pieces.*)
(***************************************************************************)
EXTENDS Integers, Sequences, FiniteSets, TLC

\* Bounds of the model.
MaxConcurrent == 2
MaxInvocations == 2
MaxCookies == 2

Startup == 0
Handlers == 1..MaxConcurrent
Procs == {Startup} \cup Handlers

\* JavaScript's undefined (a missing CLI flag / environment variable) and the
\* null that headers.get returns for a header the response does not carry.
Undefined == "undefined"
NoHeader == "null"

Usernames == {Undefined, "WikiUser"}
Passwords == {Undefined, "secret"}

\* What the upstream may answer with.
LoginTokens == {"lt1", "lt2"}
CsrfTokens == {"csrf1", "csrf2"}
SetCookieValues == {"session=a", "session=b"}

ToolNames == {"search_pages", "read_page", "create_page", "update_page",
              "get_page_history", "get_categories"}
Names == ToolNames \cup {"delete_page"}

\* request.params.arguments when the request carries none.
NoArguments == [absent |-> TRUE]
Limits == {5, 50, 51, 1000}

ArgumentsOf(n) ==
  {NoArguments} \cup
  CASE n = "search_pages" ->
         {[query |-> "wizard"]} \cup {[query |-> "wizard", limit |-> l] : l \in Limits}
    [] n \in {"create_page", "update_page"} ->
         {[title |-> "Page", content |-> "text"],
          [title |-> "Page", content |-> "text", summary |-> "why"]}
    [] n = "get_page_history" ->
         {[title |-> "Page"]} \cup {[title |-> "Page", limit |-> l] : l \in Limits}
    [] OTHER -> {[title |-> "Page"]}

VARIABLES
  username, password,   \* MediaWikiClient: the configured credentials
  loggedIn,             \* MediaWikiClient.loggedIn
  editToken,            \* MediaWikiClient.editToken (Undefined until fetched)
  cookies,              \* MediaWikiClient.cookies
  pc,                   \* per process: the await it is suspended at
  stage,                \* per process: inside makeApiCall, "fetch" or "json"
  name,                 \* per invocation: request.params.name
  arguments,            \* per invocation: request.params.arguments
  request,              \* per process: the HTTP request in flight
  loginToken,           \* per process: login()'s local loginToken
  result,               \* per process: what the handler returned
  invocations,          \* number of tool invocations started so far
  sent,                 \* history: number of requests sent, by kind
  received,             \* history: the Set-Cookie values received, in order
  calls,                \* history, per process: the requests of this invocation
  answers,              \* history, per process: the responses of this invocation
  loginRets,            \* history: how each login() call ended, in order
  tokenRets,            \* history: how each getEditToken() call ended, in order
  issued,               \* history: the csrf tokens the wiki has answered with
  refused               \* history: number of edit requests answered with an error

client == <<username, password, loggedIn, editToken, cookies>>
locals == <<pc, stage, name, arguments, request, loginToken, result>>
history == <<invocations, sent, received, calls, answers, loginRets, tokenRets,
             issued, refused>>
vars == <<client, locals, history>>

NoRequest == [method |-> "none"]
NoResult == [pending |-> TRUE]

Range(s) == {s[i] : i \in 1..Len(s)}

-----------------------------------------------------------------------------
(* makeApiCall                                                             *)

\* Array.prototype.join: the elements with the separator between them.
RECURSIVE Join(_, _)
Join(arr, sep) ==
  IF Len(arr) = 0 THEN <<>>
  ELSE IF Len(arr) = 1 THEN <<arr[1]>>
  ELSE <<arr[1], sep>> \o Join(Tail(arr), sep)

\* The headers of a request: the Cookie header only for a non-empty jar.
Headers(jar) ==
  IF Len(jar) > 0
  THEN [UserAgent |-> "MediaWiki-MCP-Server/1.0", Cookie |-> Join(jar, "; ")]
  ELSE [UserAgent |-> "MediaWiki-MCP-Server/1.0"]

\* The request makeApiCall hands to fetch(): the common parameters are
\* assigned over the caller's, GET carries them in the URL and POST in a
\* form-urlencoded body.
BuildRequest(params, method) ==
  LET all == [format |-> "json", formatversion |-> "2"] @@ params IN
  IF method = "GET"
  THEN [method |-> "GET", params |-> all, headers |-> Headers(cookies)]
  ELSE [method |-> "POST", params |-> all,
        headers |-> [ContentType |-> "application/x-www-form-urlencoded"]
                      @@ Headers(cookies)]

\* Variants of SaveCookies: one that drops the header, one that keeps a value
\* only once.
SaveCookiesNever(jar, setCookieHeader) == jar
SaveCookiesDedup(jar, setCookieHeader) ==
  IF setCookieHeader # NoHeader /\ setCookieHeader \notin Range(jar)
  THEN Append(jar, setCookieHeader) ELSE jar

\* "Save cookies from response": the jar after the headers were read.
SaveCookies(jar, setCookieHeader) ==
  IF setCookieHeader # NoHeader THEN Append(jar, setCookieHeader) ELSE jar

\* if (data.error) throw new Error(`MediaWiki API error: ...`)
HasError(data) == "error" \in DOMAIN data
ApiErrorMessage(data) ==
  <<"MediaWiki API error: ", data.error.code, " - ", data.error.info>>

Call(params, method) == [params |-> params, method |-> method]

\* The kind of a request, read off its parameters.
Kind(params) ==
  IF params.action = "login" THEN "login"
  ELSE IF params.action = "edit" THEN "edit"
  ELSE IF "meta" \in DOMAIN params /\ "type" \in DOMAIN params THEN "logintoken"
  ELSE IF "meta" \in DOMAIN params THEN "csrf"
  ELSE "query"
Kinds == {"logintoken", "login", "csrf", "edit", "query"}

-----------------------------------------------------------------------------
(* The upstream wiki: the bodies it may answer a request with.             *)

ApiError(code) == [error |-> [code |-> code, info |-> "denied"]]

Revision == [revid |-> 7, timestamp |-> "2024-01-01T00:00:00Z", user |-> "Merlin",
             comment |-> "spell", slots |-> [main |-> [content |-> "wikitext"]]]
OlderRevision == [revid |-> 6, timestamp |-> "2023-12-31T00:00:00Z",
                  user |-> "Morgana", comment |-> "draft",
                  slots |-> [main |-> [content |-> "old wikitext"]]]

Responses(req) ==
  LET k == Kind(req.params) IN
  CASE k = "logintoken" ->
         {ApiError("ratelimited")}
         \cup {[query |-> [tokens |-> [logintoken |-> t]]] : t \in LoginTokens}
    [] k = "login" ->
         {ApiError("ratelimited"),
          [login |-> [result |-> "Success"]],
          [login |-> [result |-> "Failed", reason |-> "Incorrect password"]]}
    [] k = "csrf" ->
         {ApiError("ratelimited")}
         \cup {[query |-> [tokens |-> [csrftoken |-> t]]] : t \in CsrfTokens}
    [] k = "edit" ->
         {ApiError("badtoken"),
          [edit |-> [result |-> "Success", newrevid |-> 8]]}
    [] OTHER ->
         IF "list" \in DOMAIN req.params
         THEN {ApiError("ratelimited"),
               [query |-> [searchinfo |-> [totalhits |-> 1],
                           search |-> <<[title |-> "Page", snippet |-> "wiz",
                                         size |-> 9, wordcount |-> 2,
                                         timestamp |-> "2024-01-01T00:00:00Z"]>>]]}
         ELSE IF req.params.prop = "categories"
         THEN {ApiError("ratelimited"),
               [query |-> [pages |-> <<[title |-> "Page", missing |-> TRUE]>>]],
               [query |-> [pages |-> <<[title |-> "Page"]>>]],
               [query |-> [pages |-> <<[title |-> "Page",
                                        categories |-> <<[title |-> "Category:Spells"]>>]>>]]}
         ELSE {ApiError("ratelimited"),
               [query |-> [pages |-> <<[title |-> "Page", missing |-> TRUE]>>]],
               [query |-> [pages |-> <<[title |-> "Page", revisions |-> <<Revision>>]>>]],
               [query |-> [pages |-> <<[title |-> "Page",
                                        revisions |-> <<Revision, OlderRevision>>]>>]]}

-----------------------------------------------------------------------------
(* The code between two awaits, as a function of the state: what the       *)
(* process does next.  An outcome names the await the process suspends at, *)
(* the call it sends (if any), the handler's result (if it ended) and the  *)
(* new values of the fields the code assigns.                              *)

Base(p) ==
  [next |-> pc[p], send |-> <<>>, result |-> result[p],
   loggedIn |-> loggedIn, editToken |-> editToken, loginToken |-> loginToken[p],
   loginRet |-> "none", tokenRet |-> "none"]

\* A catch block that returns the message without the isError flag.
ErrorResultNotFlagged(message) ==
  [content |-> <<[type |-> "text", text |-> <<"Error: ">> \o message]>>]

\* The handler's catch block, and the startup login's .catch.
ErrorResult(message) ==
  [content |-> <<[type |-> "text", text |-> <<"Error: ">> \o message]>>,
   isError |-> TRUE]
StartupFailed(message) ==
  [log |-> <<"Login failed: ">> \o message
            \o <<"Running in anonymous mode (read-only)">>]
StartupOk == [log |-> <<"Login successful">>]

Catch(p, message) ==
  IF p = Startup THEN StartupFailed(message) ELSE ErrorResult(message)

\* JSON.stringify(value, null, 2) in a single text content block.
TextResult(value) ==
  [content |-> <<[type |-> "text", text |-> <<"JSON", value>>]>>]

\* login() returns: the startup chain logs and starts the server, a handler
\* goes on to its switch.
loginReturns(p, value) ==
  IF p = Startup
  THEN [Base(p) EXCEPT !.next = "done", !.result = StartupOk, !.loginRet = value]
  ELSE [Base(p) EXCEPT !.next = "dispatch", !.loginRet = value]

\* Variants of login(): without the loggedIn test, and with the credential
\* test on the username alone.
loginNoLoggedInTest(p) ==
  IF username = Undefined \/ password = Undefined
  THEN loginReturns(p, "false")
  ELSE [Base(p) EXCEPT
          !.next = "login_token",
          !.send = <<Call([action |-> "query", meta |-> "tokens", type |-> "login"],
                          "GET")>>]
loginUsernameTestOnly(p) ==
  IF username = Undefined
  THEN loginReturns(p, "false")
  ELSE IF loggedIn
  THEN loginReturns(p, "true")
  ELSE [Base(p) EXCEPT
          !.next = "login_token",
          !.send = <<Call([action |-> "query", meta |-> "tokens", type |-> "login"],
                          "GET")>>]

\* login(), up to its first await.
login(p) ==
  IF username = Undefined \/ password = Undefined
  THEN loginReturns(p, "false")
  ELSE IF loggedIn
  THEN loginReturns(p, "true")
  ELSE [Base(p) EXCEPT
          !.next = "login_token",
          !.send = <<Call([action |-> "query", meta |-> "tokens", type |-> "login"],
                          "GET")>>]

\* A variant of the credential submit that sends the local loginToken as it
\* was before the token response was read.
loginSubmitStaleToken(p, tokenResponse) ==
  [Base(p) EXCEPT
     !.next = "login_submit",
     !.send = <<Call([action |-> "login", lgname |-> username,
                      lgpassword |-> password, lgtoken |-> loginToken[p]], "POST")>>]

\* login(), from the login-token response to the credential submit.
loginSubmit(p, tokenResponse) ==
  LET token == tokenResponse.query.tokens.logintoken IN
  [Base(p) EXCEPT
     !.next = "login_submit",
     !.loginToken = token,
     !.send = <<Call([action |-> "login", lgname |-> username,
                      lgpassword |-> password, lgtoken |-> token], "POST")>>]

\* A variant of the end of login() that does not look at login.result.
loginResultUnchecked(p, loginResponse) ==
  [loginReturns(p, "true") EXCEPT !.loggedIn = TRUE]

\* A variant of login() that returns false on a rejected credential submit
\* instead of throwing.
loginResultReturnsFalse(p, loginResponse) ==
  IF loginResponse.login.result = "Success"
  THEN [loginReturns(p, "true") EXCEPT !.loggedIn = TRUE]
  ELSE loginReturns(p, "false")

\* login(), from the response of the credential submit.
loginResult(p, loginResponse) ==
  IF loginResponse.login.result = "Success"
  THEN [loginReturns(p, "true") EXCEPT !.loggedIn = TRUE]
  ELSE [Base(p) EXCEPT
          !.next = "done",
          !.result = Catch(p, <<"Login failed: ", loginResponse.login.reason>>),
          !.loginRet = "threw"]

\* The action=edit call of createPage / updatePage.
editCall(n, args, token) ==
  LET summary == IF "summary" \in DOMAIN args THEN args.summary
                 ELSE IF n = "create_page" THEN "Created via MCP"
                 ELSE "Updated via MCP" IN
  IF n = "create_page"
  THEN Call([action |-> "edit", title |-> args.title, text |-> args.content,
             summary |-> summary, token |-> token, createonly |-> "true"], "POST")
  ELSE Call([action |-> "edit", title |-> args.title, text |-> args.content,
             summary |-> summary, token |-> token], "POST")

\* A variant of the test of getEditToken() that always fetches.
NeedsFetchAlways(token) == TRUE

\* if (!this.editToken): the token has to be fetched.  (The tokens the wiki
\* issues are non-empty strings, so only undefined is falsy here.)
NeedsFetch(token) == token = Undefined

\* A variant of createPage / updatePage that refuses to write when no login
\* has succeeded.
writePageLoggedInOnly(p, n, args) ==
  IF ~loggedIn
  THEN [Base(p) EXCEPT !.next = "done",
                       !.result = ErrorResult(<<"Authentication required">>)]
  ELSE IF NeedsFetch(editToken)
  THEN [Base(p) EXCEPT
          !.next = "edit_token",
          !.send = <<Call([action |-> "query", meta |-> "tokens"], "GET")>>]
  ELSE [Base(p) EXCEPT
          !.next = "operation",
          !.tokenRet = editToken,
          !.send = <<editCall(n, args, editToken)>>]

\* createPage / updatePage: getEditToken() up to its await, or, with a cached
\* token, on to the edit call.
writePage(p, n, args) ==
  IF NeedsFetch(editToken)
  THEN [Base(p) EXCEPT
          !.next = "edit_token",
          !.send = <<Call([action |-> "query", meta |-> "tokens"], "GET")>>]
  ELSE [Base(p) EXCEPT
          !.next = "operation",
          !.tokenRet = editToken,
          !.send = <<editCall(n, args, editToken)>>]

\* A variant of getEditToken() that fetches the token a second time before it
\* returns.
tokenFetchedTwice(p, tokenResponse) ==
  LET token == tokenResponse.query.tokens.csrftoken IN
  IF editToken = Undefined
  THEN [Base(p) EXCEPT
          !.next = "edit_token",
          !.editToken = token,
          !.send = <<Call([action |-> "query", meta |-> "tokens"], "GET")>>]
  ELSE [Base(p) EXCEPT
          !.next = "operation",
          !.editToken = token,
          !.tokenRet = token,
          !.send = <<editCall(name[p], arguments[p], token)>>]

\* A variant of getEditToken() that caches the fetched token but returns the
\* field as it was before the fetch.
tokenFetchedReturnsOld(p, tokenResponse) ==
  LET token == tokenResponse.query.tokens.csrftoken IN
  [Base(p) EXCEPT
     !.next = "operation",
     !.editToken = token,
     !.tokenRet = editToken,
     !.send = <<editCall(name[p], arguments[p], editToken)>>]

\* A variant of getEditToken() that returns the fetched token without caching it.
tokenFetchedNotCached(p, tokenResponse) ==
  LET token == tokenResponse.query.tokens.csrftoken IN
  [Base(p) EXCEPT
     !.next = "operation",
     !.tokenRet = token,
     !.send = <<editCall(name[p], arguments[p], token)>>]

\* getEditToken() from the token response, and the edit call that follows.
tokenFetched(p, tokenResponse) ==
  LET token == tokenResponse.query.tokens.csrftoken IN
  [Base(p) EXCEPT
     !.next = "operation",
     !.editToken = token,
     !.tokenRet = token,
     !.send = <<editCall(name[p], arguments[p], token)>>]

\* A variant of Math.min that lets its first argument through.
MinUnclamped(a, b) == a

\* Math.min on two numbers.
Min(a, b) == IF a < b THEN a ELSE b
DefaultLimit == 10
MaxSearchLimit == 50
LimitOf(args) == IF "limit" \in DOMAIN args THEN args.limit ELSE DefaultLimit

\* The switch of the handler, up to the await of the client call.
switch(p, n, args) ==
  CASE n = "search_pages" ->
         [Base(p) EXCEPT
            !.next = "operation",
            !.send = <<Call([action |-> "query", list |-> "search",
                             srsearch |-> args.query,
                             srlimit |-> Min(LimitOf(args), MaxSearchLimit),
                             srinfo |-> "totalhits",
                             srprop |-> "size|wordcount|timestamp|snippet"], "GET")>>]
    [] n = "read_page" ->
         [Base(p) EXCEPT
            !.next = "operation",
            !.send = <<Call([action |-> "query", prop |-> "revisions",
                             titles |-> args.title,
                             rvprop |-> "content|timestamp|user|comment",
                             rvslots |-> "main"], "GET")>>]
    [] n \in {"create_page", "update_page"} -> writePage(p, n, args)
    [] n = "get_page_history" ->
         [Base(p) EXCEPT
            !.next = "operation",
            !.send = <<Call([action |-> "query", prop |-> "revisions",
                             titles |-> args.title,
                             rvprop |-> "timestamp|user|comment|ids",
                             rvlimit |-> LimitOf(args)], "GET")>>]
    [] n = "get_categories" ->
         [Base(p) EXCEPT
            !.next = "operation",
            !.send = <<Call([action |-> "query", prop |-> "categories",
                             titles |-> args.title, cllimit |-> "max"], "GET")>>]
    [] OTHER ->
         [Base(p) EXCEPT !.next = "done",
                         !.result = ErrorResult(<<"Unknown tool: ", n>>)]

\* A variant of the handler that calls login() for the two write tools only.
handlerLoginForWrites(p, n, args) ==
  IF args = NoArguments
  THEN [Base(p) EXCEPT !.next = "done",
                       !.result = ErrorResult(<<"Arguments are required">>)]
  ELSE IF n = "create_page" \/ n = "update_page"
  THEN login(p)
  ELSE switch(p, n, args)

\* A variant of the handler that calls login() before it looks at the
\* arguments.
handlerLoginFirst(p, n, args) ==
  IF n # "search_pages" /\ n # "read_page"
  THEN LET l == login(p) IN
       IF l.next = "dispatch" /\ args = NoArguments
       THEN [l EXCEPT !.next = "done",
                      !.result = ErrorResult(<<"Arguments are required">>)]
       ELSE l
  ELSE IF args = NoArguments
  THEN [Base(p) EXCEPT !.next = "done",
                       !.result = ErrorResult(<<"Arguments are required">>)]
  ELSE switch(p, n, args)

\* The handler from its entry to its first await.
handler(p, n, args) ==
  IF args = NoArguments
  THEN [Base(p) EXCEPT !.next = "done",
                       !.result = ErrorResult(<<"Arguments are required">>)]
  ELSE IF n # "search_pages" /\ n # "read_page"
  THEN login(p)
  ELSE switch(p, n, args)

\* A variant that reports a missing page as an error.
MissingPageAsError(page) == ErrorResult(<<"Page does not exist">>)

\* The result for a page the wiki reports as missing.
MissingPage(page) ==
  TextResult([title |-> page.title, exists |-> FALSE,
              message |-> "Page does not exist"])
IsMissing(page) == "missing" \in DOMAIN page /\ page.missing

\* The handler's reshaping of the client call's result.
reshape(n, args, data) ==
  CASE n = "search_pages" ->
         TextResult([totalHits |-> data.query.searchinfo.totalhits,
                     pages |-> [i \in 1..Len(data.query.search) |->
                                  LET page == data.query.search[i] IN
                                  [title |-> page.title, snippet |-> page.snippet,
                                   size |-> page.size, wordCount |-> page.wordcount,
                                   timestamp |-> page.timestamp]]])
    [] n = "read_page" ->
         LET page == data.query.pages[1] IN
         IF IsMissing(page) THEN MissingPage(page)
         ELSE LET revision == page.revisions[1] IN
              TextResult([title |-> page.title,
                          content |-> revision.slots.main.content,
                          lastEdit |-> [timestamp |-> revision.timestamp,
                                        user |-> revision.user,
                                        comment |-> revision.comment]])
    [] n \in {"create_page", "update_page"} ->
         TextResult([title |-> args.title, result |-> data.edit.result,
                     newRevId |-> data.edit.newrevid,
                     success |-> data.edit.result = "Success"])
    [] n = "get_page_history" ->
         LET page == data.query.pages[1] IN
         IF IsMissing(page) THEN MissingPage(page)
         ELSE TextResult([title |-> page.title,
                          revisions |-> [i \in 1..Len(page.revisions) |->
                                           LET rev == page.revisions[i] IN
                                           [id |-> rev.revid, timestamp |-> rev.timestamp,
                                            user |-> rev.user, comment |-> rev.comment]]])
    [] OTHER ->
         LET page == data.query.pages[1] IN
         IF IsMissing(page) THEN MissingPage(page)
         ELSE TextResult([title |-> page.title,
                          categories |-> IF "categories" \in DOMAIN page
                                         THEN [i \in 1..Len(page.categories) |->
                                                 page.categories[i].title]
                                         ELSE <<>>])

\* A variant that drops the cached edit token when a call fails.
resumeInvalidating(p, data) ==
  IF HasError(data)
  THEN [Base(p) EXCEPT
          !.next = "done",
          !.result = Catch(p, ApiErrorMessage(data)),
          !.editToken = Undefined,
          !.loginRet = IF pc[p] \in {"login_token", "login_submit"}
                       THEN "threw" ELSE "none",
          !.tokenRet = IF pc[p] = "edit_token" THEN "threw" ELSE "none"]
  ELSE CASE pc[p] = "login_token" -> loginSubmit(p, data)
         [] pc[p] = "login_submit" -> loginResult(p, data)
         [] pc[p] = "edit_token" -> tokenFetched(p, data)
         [] OTHER -> [Base(p) EXCEPT
                        !.next = "done",
                        !.result = reshape(name[p], arguments[p], data)]

\* makeApiCall from the parsed body on, and the caller's continuation.
resume(p, data) ==
  IF HasError(data)
  THEN [Base(p) EXCEPT
          !.next = "done",
          !.result = Catch(p, ApiErrorMessage(data)),
          !.loginRet = IF pc[p] \in {"login_token", "login_submit"}
                       THEN "threw" ELSE "none",
          !.tokenRet = IF pc[p] = "edit_token" THEN "threw" ELSE "none"]
  ELSE CASE pc[p] = "login_token" -> loginSubmit(p, data)
         [] pc[p] = "login_submit" -> loginResult(p, data)
         [] pc[p] = "edit_token" -> tokenFetched(p, data)
         [] OTHER -> [Base(p) EXCEPT
                        !.next = "done",
                        !.result = reshape(name[p], arguments[p], data)]

-----------------------------------------------------------------------------
(* The state machine.                                                      *)

NoData == [pending |-> TRUE]

Init ==
  /\ username \in Usernames
  /\ password \in Passwords
  /\ loggedIn = FALSE
  /\ editToken = Undefined
  /\ cookies = <<>>
  /\ pc = [p \in Procs |-> IF p = Startup THEN "start" ELSE "idle"]
  /\ stage = [p \in Procs |-> "none"]
  /\ name = [p \in Procs |-> Undefined]
  /\ arguments = [p \in Procs |-> NoArguments]
  /\ request = [p \in Procs |-> NoRequest]
  /\ loginToken = [p \in Procs |-> Undefined]
  /\ result = [p \in Procs |-> NoResult]
  /\ invocations = 0
  /\ sent = [k \in Kinds |-> 0]
  /\ received = <<>>
  /\ calls = [p \in Procs |-> <<>>]
  /\ answers = [p \in Procs |-> <<>>]
  /\ loginRets = <<>>
  /\ tokenRets = <<>>
  /\ issued = {}
  /\ refused = 0

\* Process p runs to its next await (or to its end) as the outcome o says;
\* a call it makes is built and handed to fetch() in the same step.  before
\* is the calls the invocation has made so far.
Apply(p, o, before) ==
  LET sending == o.send # <<>>
      req == IF sending THEN BuildRequest(o.send[1].params, o.send[1].method)
             ELSE NoRequest IN
  /\ pc' = [pc EXCEPT ![p] = o.next]
  /\ stage' = [stage EXCEPT ![p] = IF sending THEN "fetch" ELSE "none"]
  /\ request' = [request EXCEPT ![p] = req]
  /\ loginToken' = [loginToken EXCEPT ![p] = o.loginToken]
  /\ result' = [result EXCEPT ![p] = o.result]
  /\ loggedIn' = o.loggedIn
  /\ editToken' = o.editToken
  /\ sent' = IF sending THEN [sent EXCEPT ![Kind(req.params)] = @ + 1] ELSE sent
  /\ calls' = [calls EXCEPT ![p] = before \o o.send]
  /\ loginRets' = IF o.loginRet # "none" THEN Append(loginRets, o.loginRet)
                  ELSE loginRets
  /\ tokenRets' = IF o.tokenRet # "none" THEN Append(tokenRets, o.tokenRet)
                  ELSE tokenRets

\* The processes that have just ended.  A process ends in the event-loop turn
\* that delivers its result (the handler's return value goes to the transport,
\* the startup chain runs .then/.catch/.finally), so no other code runs
\* before Return or RunServer.
Returning == {p \in Procs : pc[p] = "done"}

\* wikiClient.login() at startup.
StartupLogin ==
  /\ pc[Startup] = "start"
  /\ Apply(Startup, login(Startup), <<>>)
  /\ UNCHANGED <<username, password, cookies, name, arguments, invocations,
                 received, answers, issued, refused>>

\* The invocations that are running, and the slot the next one takes.
Running == {p \in Handlers : pc[p] # "idle"}
FreeSlot == IF Running = Handlers THEN Startup
            ELSE CHOOSE p \in Handlers \ Running : \A q \in Handlers \ Running : p <= q

\* A tools/call request arrives: the handler runs to its first await.
CallTool(p, n, args) ==
  /\ Returning = {}
  /\ pc[Startup] = "serving"
  /\ p = FreeSlot
  /\ invocations < MaxInvocations
  /\ name' = [name EXCEPT ![p] = n]
  /\ arguments' = [arguments EXCEPT ![p] = args]
  /\ invocations' = invocations + 1
  /\ LET h == handler(p, n, args) IN
       Apply(p, [h EXCEPT !.loginToken = Undefined,
                          !.result = IF h.next = "done" THEN h.result ELSE NoResult],
             <<>>)
  /\ answers' = [answers EXCEPT ![p] = <<>>]
  /\ UNCHANGED <<username, password, cookies, received, issued, refused>>

\* await wikiClient.login() has returned: the switch.
Dispatch(p) ==
  /\ Returning = {}
  /\ pc[p] = "dispatch"
  /\ Apply(p, switch(p, name[p], arguments[p]), calls[p])
  /\ UNCHANGED <<username, password, cookies, name, arguments, invocations,
                 received, answers, issued, refused>>

\* await fetch(...) resolves with the response headers.
FetchResolves(p, setCookieHeader) ==
  /\ Returning = {}
  /\ stage[p] = "fetch"
  /\ setCookieHeader # NoHeader => Len(received) < MaxCookies
  /\ cookies' = SaveCookies(cookies, setCookieHeader)
  /\ received' = IF setCookieHeader # NoHeader
                 THEN Append(received, setCookieHeader) ELSE received
  /\ stage' = [stage EXCEPT ![p] = "json"]
  /\ answers' = [answers EXCEPT ![p] =
                   Append(@, [setCookie |-> setCookieHeader,
                              pushed |-> cookies' # cookies,
                              data |-> NoData])]
  /\ UNCHANGED <<username, password, loggedIn, editToken, pc, name, arguments,
                 request, loginToken, result, invocations, sent, calls,
                 loginRets, tokenRets, issued, refused>>

\* await response.json() resolves with the parsed body.
JsonResolves(p, data) ==
  /\ Returning = {}
  /\ stage[p] = "json"
  /\ Apply(p, resume(p, data), calls[p])
  /\ answers' = [answers EXCEPT ![p][Len(answers[p])].data = data]
  /\ issued' = IF Kind(request[p].params) = "csrf" /\ ~HasError(data)
               THEN issued \cup {data.query.tokens.csrftoken} ELSE issued
  /\ refused' = IF Kind(request[p].params) = "edit" /\ HasError(data)
                THEN refused + 1 ELSE refused
  /\ UNCHANGED <<username, password, cookies, name, arguments, invocations,
                 received>>

\* The handler's promise resolves: the result goes to the caller.
Return(p) ==
  /\ pc[p] = "done"
  /\ p # Startup
  /\ pc' = [pc EXCEPT ![p] = "idle"]
  /\ name' = [name EXCEPT ![p] = Undefined]
  /\ arguments' = [arguments EXCEPT ![p] = NoArguments]
  /\ loginToken' = [loginToken EXCEPT ![p] = Undefined]
  /\ result' = [result EXCEPT ![p] = NoResult]
  /\ calls' = [calls EXCEPT ![p] = <<>>]
  /\ answers' = [answers EXCEPT ![p] = <<>>]
  /\ UNCHANGED <<client, stage, request, invocations, sent, received,
                 loginRets, tokenRets, issued, refused>>

\* .finally(() => runServer()): the server connects its transport and tool
\* calls can arrive, whether the startup login succeeded or failed.
RunServer ==
  /\ pc[Startup] = "done"
  /\ pc' = [pc EXCEPT ![Startup] = "serving"]
  /\ loginToken' = [loginToken EXCEPT ![Startup] = Undefined]
  /\ result' = [result EXCEPT ![Startup] = NoResult]
  /\ calls' = [calls EXCEPT ![Startup] = <<>>]
  /\ answers' = [answers EXCEPT ![Startup] = <<>>]
  /\ UNCHANGED <<client, stage, name, arguments, request, invocations, sent,
                 received, loginRets, tokenRets, issued,
                 refused>>

\* The processes whose response body is being parsed.
Parsing == {p \in Procs : stage[p] = "json"}

\* Concurrent tool invocations: a request may arrive while others are
\* running.  The inputs are the arguments without the optional fields and one
\* Set-Cookie value.
PlainArgumentsOf(n) == {args \in ArgumentsOf(n) : DOMAIN args \cap {"limit", "summary"} = {}}

Next ==
  \/ StartupLogin
  \/ \E p \in Handlers : \E n \in Names : \E args \in PlainArgumentsOf(n) :
       CallTool(p, n, args)
  \/ \E p \in Handlers : Dispatch(p)
  \/ \E p \in Procs : \E h \in {"session=a", NoHeader} : FetchResolves(p, h)
  \/ \E p \in Parsing : \E data \in Responses(request[p]) : JsonResolves(p, data)
  \/ \E p \in Handlers : Return(p)
  \/ RunServer

Spec == Init /\ [][Next]_vars

\* Tool invocations one after another: a request arrives only when no other
\* invocation is running.
Quiet == Running = {}

NextSeq ==
  \/ StartupLogin
  \/ \E p \in Handlers : \E n \in Names : \E args \in ArgumentsOf(n) :
       Quiet /\ CallTool(p, n, args)
  \/ \E p \in Handlers : Dispatch(p)
  \/ \E p \in Procs : \E h \in SetCookieValues \cup {NoHeader} : FetchResolves(p, h)
  \/ \E p \in Parsing : \E data \in Responses(request[p]) : JsonResolves(p, data)
  \/ \E p \in Handlers : Return(p)
  \/ RunServer

SpecSeq == Init /\ [][NextSeq]_vars

\* Every request is answered and every continuation that can run does: the
\* wiki answers with headers and then a body, the event loop resumes the
\* awaiting code and delivers the result.
Responds ==
  /\ WF_vars(\E p \in Procs : \E h \in SetCookieValues \cup {NoHeader} :
               FetchResolves(p, h))
  /\ WF_vars(\E p \in Parsing : \E data \in Responses(request[p]) :
               JsonResolves(p, data))
  /\ WF_vars(\E p \in Handlers : Dispatch(p))
  /\ WF_vars(\E p \in Handlers : Return(p))
  /\ WF_vars(StartupLogin)
  /\ WF_vars(RunServer)

\* Sequential invocations whose requests are all answered.
SpecLive == Init /\ [][NextSeq]_vars /\ Responds

-----------------------------------------------------------------------------
(* Properties.                                                             *)

FetchInFlight == {p \in Procs : pc[p] = "edit_token"}
InLogin == {p \in Handlers : pc[p] \in {"login_token", "login_submit"}}
Threw(rets) == {i \in 1..Len(rets) : rets[i] = "threw"}
Anonymous == username = Undefined \/ password = Undefined
LoginReturned == Len(loginRets') = Len(loginRets) + 1
KindOfCall(p, i) == Kind(calls[p][i].params)
Answered(p, i) == i <= Len(answers[p]) /\ answers[p][i].data # NoData

\* C1: while edit-token fetches are in flight and none has completed, exactly
\* one token-fetch request has been sent, however many invocations have
\* called getEditToken.
C1_ExactlyOnceFetch ==
  (FetchInFlight # {} /\ tokenRets = <<>>) => sent["csrf"] = 1

\* C2: login is single-flight: at most one tool invocation is inside the
\* login round trip at a time; a second caller shares the first one's result.
C2_SingleFlightLogin == Cardinality(InLogin) <= 1

\* C3: after N getEditToken() calls in sequence that returned, one token
\* fetch was sent and all N calls returned the same token.
C3_OneFetchForNCalls ==
  (tokenRets # <<>> /\ Threw(tokenRets) = {}) =>
     /\ sent["csrf"] = 1
     /\ \A i, j \in 1..Len(tokenRets) : tokenRets[i] = tokenRets[j]
     /\ editToken = tokenRets[1]

C3_TwoCallsReturned == Len(tokenRets) = 2 /\ Threw(tokenRets) = {}

\* C4 as stated: after any sequence of tool invocations, at most one
\* edit-token fetch request has been sent.
C4_AtMostOneFetch == sent["csrf"] <= 1

\* C4 as amended: after any sequence of tool invocations the number of
\* edit-token fetches sent is at most one more than the number of fetches
\* that were answered with an error object, and once a token is cached no
\* fetch is in flight.
C4_FetchRepeatedOnlyAfterFailure ==
  /\ sent["csrf"] <= 1 + Cardinality(Threw(tokenRets))
  /\ editToken # Undefined => FetchInFlight = {}

C4_RefetchedAfterFailure ==
  sent["csrf"] = 2 /\ Cardinality(Threw(tokenRets)) = 1 /\ editToken # Undefined

\* Once the first login() has logged in: the requests sent for it, and what
\* every login() has returned.
C5_LoggedInState ==
  (loginRets # <<>> /\ loginRets[1] = "true") =>
     /\ sent["logintoken"] = 1 /\ sent["login"] = 1
     /\ loggedIn
     /\ \A i \in 1..Len(loginRets) : loginRets[i] = "true"
     /\ \A p \in Procs : pc[p] \notin {"login_token", "login_submit"}

\* A step in which login() is called while logged in.
C5_SecondLoginStep ==
  (loggedIn /\ LoginReturned) =>
     /\ loginRets'[Len(loginRets')] = "true"
     /\ sent' = sent
     /\ UNCHANGED <<loggedIn, editToken, cookies>>

\* C5: once the first login() has logged in, one login-token fetch and one
\* credential submit have been sent in total, and every later login() returns
\* true in the step that calls it, sending nothing and leaving loggedIn,
\* editToken and the cookie jar as they are.
C5_SecondLoginIsNoop == []C5_LoggedInState /\ [][C5_SecondLoginStep]_vars

C5_LoginCalledTwice ==
  Len(loginRets) >= 2 /\ loginRets[1] = "true" /\ loginRets[2] = "true"
  /\ sent["logintoken"] = 1

\* Without credentials: the login requests sent, and what every login() has
\* returned.
C6_AnonymousState ==
  Anonymous =>
     /\ sent["logintoken"] = 0 /\ sent["login"] = 0
     /\ ~loggedIn
     /\ \A i \in 1..Len(loginRets) : loginRets[i] = "false"
     /\ \A p \in Procs : pc[p] \notin {"login_token", "login_submit"}

\* A step in which login() is called without credentials.
C6_AnonymousLoginStep ==
  (Anonymous /\ LoginReturned) =>
     /\ loginRets'[Len(loginRets')] = "false"
     /\ sent' = sent
     /\ UNCHANGED <<loggedIn, editToken, cookies>>

\* C6: without credentials no login request is ever sent, and every login()
\* returns false in the step that calls it, leaving loggedIn, editToken and
\* the cookie jar as they are.
C6_AnonymousLoginIsNoop == []C6_AnonymousState /\ [][C6_AnonymousLoginStep]_vars

C6_AnonymousLoginWithSession ==
  /\ username # Undefined /\ password = Undefined
  /\ Len(loginRets) = 3
  /\ editToken # Undefined /\ cookies # <<>>

\* The calls of an invocation that belong to login().
LoginCalls(p) == {i \in 1..Len(calls[p]) : KindOfCall(p, i) \in {"logintoken", "login"}}
Submitted(p) == Len(calls[p]) >= 2 /\ KindOfCall(p, 2) = "login"

\* C7: a login() that goes to the wiki sends a GET login-token fetch first
\* and, only once that fetch is answered, a POST credential submit whose
\* lgtoken is the token of the answer; it sends no other login request, and
\* every Set-Cookie value its responses carried is in the cookie jar.
C7_TwoStepLogin ==
  \A p \in Procs :
    /\ LoginCalls(p) \subseteq {1, 2}
    /\ 1 \in LoginCalls(p) =>
         /\ KindOfCall(p, 1) = "logintoken"
         /\ calls[p][1].method = "GET"
    /\ 2 \in LoginCalls(p) =>
         /\ KindOfCall(p, 1) = "logintoken"
         /\ KindOfCall(p, 2) = "login"
         /\ calls[p][2].method = "POST"
         /\ Answered(p, 1)
         /\ calls[p][2].params.lgtoken = answers[p][1].data.query.tokens.logintoken
         /\ calls[p][2].params.lgname = username
         /\ calls[p][2].params.lgpassword = password
    /\ pc[p] = "login_token" => Len(calls[p]) = 1
    /\ pc[p] = "login_submit" => Len(calls[p]) = 2
    /\ \A i \in LoginCalls(p) :
         (i <= Len(answers[p]) /\ answers[p][i].setCookie # NoHeader)
            => answers[p][i].setCookie \in Range(cookies)

C7_LoggedInWithCookies ==
  \E p \in Handlers :
    /\ Len(calls[p]) = 3 /\ Submitted(p)
    /\ calls[p][2].params.lgtoken = "lt2"
    /\ answers[p][1].setCookie = "session=b"
    /\ answers[p][2].setCookie = "session=a"
    /\ loggedIn

\* The credential submit of p was answered with a result other than Success.
LoginRejected(p) ==
  /\ Submitted(p)
  /\ Answered(p, 2)
  /\ ~HasError(answers[p][2].data)
  /\ answers[p][2].data.login.result # "Success"

ErrorAnswers(p) == {i \in 1..Len(answers[p]) : HasError(answers[p][i].data)}

\* C9 as stated: a response whose body carries an error object leaves the
\* cookie jar unchanged.
C9_ErrorLeavesJarUnchanged ==
  \A p \in Procs : \A i \in ErrorAnswers(p) : ~answers[p][i].pushed

\* C9 as amended: a call whose response body carries an error object fails
\* with "MediaWiki API error: <code> - <info>" and ends the invocation; the
\* Set-Cookie header of a response is appended to the jar when the headers
\* are read, whether or not the body carries an error object.
C9_ErrorThrownCookieKept ==
  \A p \in Procs :
    /\ \A i \in ErrorAnswers(p) :
         /\ i = Len(answers[p]) /\ i = Len(calls[p])
         /\ pc[p] = "done"
         /\ result[p] = Catch(p, <<"MediaWiki API error: ",
                                   answers[p][i].data.error.code, " - ",
                                   answers[p][i].data.error.info>>)
    /\ \A i \in 1..Len(answers[p]) :
         answers[p][i].pushed <=> answers[p][i].setCookie # NoHeader
    /\ \A i \in 1..Len(answers[p]) :
         answers[p][i].pushed => answers[p][i].setCookie \in Range(cookies)

C9_ErrorWithCookie ==
  \E p \in Handlers : \E i \in ErrorAnswers(p) :
    /\ answers[p][i].pushed
    /\ cookies = <<answers[p][i].setCookie>>

\* The Cookie header that carries the entries of jar joined by "; ".
CookieHeaderOf(headers, jar) ==
  IF jar = <<>> THEN "Cookie" \notin DOMAIN headers
  ELSE /\ "Cookie" \in DOMAIN headers
       /\ Len(headers.Cookie) = 2 * Len(jar) - 1
       /\ \A i \in 1..Len(jar) : headers.Cookie[2 * i - 1] = jar[i]
       /\ \A i \in 1..(Len(jar) - 1) : headers.Cookie[2 * i] = "; "

\* C10: the cookie jar is the sequence of the Set-Cookie values received so
\* far, in the order received, and a request that has been sent carries the
\* jar's entries joined by "; " as its Cookie header, or no Cookie header
\* when the jar is empty.
C10_JarAccumulates ==
  /\ cookies = received
  /\ \A p \in Procs : stage[p] = "fetch" => CookieHeaderOf(request[p].headers, received)

C10_TwoCookiesSent ==
  \E p \in Handlers :
    /\ stage[p] = "fetch"
    /\ received = <<"session=b", "session=a">>

-----------------------------------------------------------------------------
(* The dispatcher's results.                                               *)

Ended == {p \in Handlers : pc[p] = "done"}
HasArguments(p) == arguments[p] # NoArguments
IsErrorResult(r) == "isError" \in DOMAIN r /\ r.isError
TextOf(r) == r.content[1].text
LastCallKind(p) == IF calls[p] = <<>> THEN "none" ELSE KindOfCall(p, Len(calls[p]))

\* What the invocation of p threw, from what was asked and answered: <<>> if
\* nothing was thrown.
Thrown(p) ==
  IF ~HasArguments(p) THEN <<"Arguments are required">>
  ELSE IF ErrorAnswers(p) # {}
  THEN LET e == answers[p][Len(answers[p])].data.error IN
       <<"MediaWiki API error: ", e.code, " - ", e.info>>
  ELSE IF LoginRejected(p)
  THEN <<"Login failed: ", answers[p][2].data.login.reason>>
  ELSE IF name[p] \notin ToolNames THEN <<"Unknown tool: ", name[p]>>
  ELSE <<>>

\* C11: every invocation ends with a result of exactly one text content
\* block; when a step threw (absent arguments, a failed login, an upstream
\* error object, an unknown tool) the result has isError true and the text
\* "Error: <message>", which for an upstream error {code, info} is
\* "Error: MediaWiki API error: <code> - <info>"; when nothing threw the
\* result is not an error.
C11_ErrorsBecomeResults ==
  \A p \in Ended :
    /\ result[p] # NoResult
    /\ Len(result[p].content) = 1
    /\ result[p].content[1].type = "text"
    /\ IF Thrown(p) # <<>>
       THEN /\ IsErrorResult(result[p])
            /\ TextOf(result[p]) = <<"Error: ">> \o Thrown(p)
       ELSE ~IsErrorResult(result[p])

\* An edit refused by the wiki comes back as an error result.
C11_UpstreamErrorReturned ==
  \E p \in Ended :
    /\ name[p] = "update_page"
    /\ TextOf(result[p]) = <<"Error: ", "MediaWiki API error: ", "badtoken", " - ", "denied">>
    /\ result[p].isError

ReadOnlyTools == {"search_pages", "read_page", "get_page_history", "get_categories"}
StartupLoginFailed == ~Anonymous /\ loginRets # <<>> /\ loginRets[1] = "threw"

\* C12: after a failed startup login (credentials configured), a read-only
\* tool (search_pages, read_page, get_page_history, get_categories) called
\* with arguments returns its normal, non-error result whenever no answer of
\* the wiki to the invocation carried an error object.
C12_ReadOnlyServedAfterFailedStartup ==
  StartupLoginFailed =>
    \A p \in Ended :
      (name[p] \in ReadOnlyTools /\ HasArguments(p) /\ ErrorAnswers(p) = {}) =>
        /\ ~IsErrorResult(result[p])
        /\ LastCallKind(p) = "query"

WriteTools == {"create_page", "update_page"}

C14_NoAnonymousWrite == Anonymous => sent["edit"] = 0

\* C15: every request of a search_pages invocation is a search whose srlimit
\* is at most 50: the limit asked for when that is at most 50, 50 when it is
\* larger (1000 becomes 50), and 10 when no limit was given.
C15_SearchLimitClamped ==
  \A p \in Handlers : \A i \in 1..Len(calls[p]) :
    name[p] = "search_pages" =>
      LET q == calls[p][i].params IN
      /\ q.list = "search"
      /\ q.srlimit <= 50
      /\ IF "limit" \in DOMAIN arguments[p]
         THEN q.srlimit = IF arguments[p].limit > 50 THEN 50 ELSE arguments[p].limit
         ELSE q.srlimit = 10

\* A search asked for with limit 1000 was sent with srlimit 50.
C15_LargeLimitClamped ==
  \E p \in Handlers :
    /\ name[p] = "search_pages"
    /\ HasArguments(p)
    /\ "limit" \in DOMAIN arguments[p]
    /\ arguments[p].limit = 1000
    /\ calls[p] # <<>>
    /\ calls[p][1].params.srlimit = 50

\* The step in which an invocation arrives at handler slot p.
Arrives(p) == invocations' = invocations + 1 /\ pc[p] = "idle" /\ pc'[p] # "idle"

\* A step in which an invocation without arguments arrives.
C16_AbsentArgumentsStep ==
  \A p \in Handlers :
    (Arrives(p) /\ arguments'[p] = NoArguments) =>
      /\ pc'[p] = "done"
      /\ result'[p] = [content |-> <<[type |-> "text",
                                      text |-> <<"Error: ", "Arguments are required">>]>>,
                       isError |-> TRUE]
      /\ calls'[p] = <<>>
      /\ sent' = sent
      /\ request' = request
      /\ loginRets' = loginRets
      /\ tokenRets' = tokenRets
      /\ UNCHANGED <<loggedIn, editToken, cookies>>

\* C16: an invocation whose arguments are absent ends, for every tool name,
\* in the step in which it arrives, with the error "Arguments are required":
\* login() is not called, no request is sent, and loggedIn, editToken and the
\* cookie jar are unchanged.
C16_AbsentArgumentsFirst == [][C16_AbsentArgumentsStep]_vars

\* create_page arrived without arguments while credentials are configured and
\* no login has succeeded.
C16_WriteWithoutArguments ==
  /\ ~Anonymous
  /\ ~loggedIn
  /\ \E p \in Ended : name[p] = "create_page" /\ ~HasArguments(p)

\* C17: an invocation with arguments whose tool name is not one of the six
\* tools always ends with isError true and the text
\* "Error: Unknown tool: <name>", whatever the session state and the
\* configured credentials.
C17_UnknownToolSurfaced ==
  \A p \in Ended :
    (name[p] \notin ToolNames /\ HasArguments(p)) =>
      result[p] = [content |-> <<[type |-> "text",
                                  text |-> <<"Error: ", "Unknown tool: ", name[p]>>]>>,
                   isError |-> TRUE]

NoLoginTools == {"search_pages", "read_page"}
LoginTools == {"create_page", "update_page", "get_page_history", "get_categories"}
LoginKinds == {"logintoken", "login"}
OwnCalls(p) == {i \in 1..Len(calls[p]) : KindOfCall(p, i) \notin LoginKinds}

\* Where an invocation with arguments is, by the class of its tool.
C18_LoginState ==
  \A p \in Handlers :
    HasArguments(p) =>
      /\ name[p] \in NoLoginTools =>
           (LoginCalls(p) = {} /\ pc[p] \in {"operation", "done"})
      /\ name[p] \in LoginTools =>
           /\ pc[p] \in {"login_token", "login_submit", "dispatch"} => OwnCalls(p) = {}
           /\ \A i \in OwnCalls(p) : \A j \in LoginCalls(p) :
                j < i /\ Answered(p, j) /\ ~HasError(answers[p][j].data)

\* What a step does about login(), by the class of the tool.
C18_LoginStep ==
  \A p \in Handlers :
    /\ (name'[p] \in NoLoginTools /\ pc[p] # "done") =>
          /\ loginRets' = loginRets
          /\ loggedIn' = loggedIn
          /\ sent'["logintoken"] = sent["logintoken"]
          /\ sent'["login"] = sent["login"]
    /\ (Arrives(p) /\ name'[p] \in LoginTools /\ arguments'[p] # NoArguments) =>
          \/ LoginReturned /\ pc'[p] = "dispatch" /\ calls'[p] = <<>>
          \/ /\ loginRets' = loginRets
             /\ pc'[p] = "login_token"
             /\ Len(calls'[p]) = 1
             /\ Kind(calls'[p][1].params) = "logintoken"
    /\ (pc'[p] = "dispatch" /\ pc[p] # "dispatch") =>
          (LoginReturned /\ loginRets'[Len(loginRets')] \in {"true", "false"})
    /\ (name[p] \in LoginTools /\ Len(calls'[p]) > Len(calls[p])
        /\ Kind(calls'[p][Len(calls'[p])].params) \notin LoginKinds) =>
          pc[p] \in {"dispatch", "edit_token"}

\* C18: search_pages and read_page never call login(): they send no login
\* request and leave loggedIn unchanged.  Every create_page, update_page,
\* get_page_history and get_categories invocation (with arguments) calls
\* login() when it arrives and sends its own request only after login() has
\* returned, every login request answered.
C18_LoginBeforeOwnRequest == []C18_LoginState /\ [][C18_LoginStep]_vars

\* get_categories logged in through the wiki and then sent its query.
C18_QueryAfterLogin ==
  \E p \in Handlers :
    /\ name[p] = "get_categories"
    /\ Len(calls[p]) = 3
    /\ KindOfCall(p, 1) = "logintoken"
    /\ KindOfCall(p, 2) = "login"
    /\ KindOfCall(p, 3) = "query"

\* The first page of the answer to the (only) request of a read invocation.
FirstPage(p) == answers[p][1].data.query.pages[1]

\* C19: a read_page invocation whose query the wiki answers without an error
\* object returns one text block holding, when the first page is marked
\* missing, {title, exists: false, message: "Page does not exist"}, and
\* otherwise {title, content, lastEdit: {timestamp, user, comment}} taken
\* from the main slot of the page's first revision; in neither case is the
\* result an error.
C19_ReadPageReshaped ==
  \A p \in Ended :
    (name[p] = "read_page" /\ HasArguments(p) /\ ErrorAnswers(p) = {}) =>
      LET page == FirstPage(p)
          missing == "missing" \in DOMAIN page /\ page.missing = TRUE
          first == page.revisions[1]
          value == IF missing
                   THEN [title |-> page.title, exists |-> FALSE,
                         message |-> "Page does not exist"]
                   ELSE [title |-> page.title,
                         content |-> first.slots.main.content,
                         lastEdit |-> [timestamp |-> first.timestamp,
                                       user |-> first.user,
                                       comment |-> first.comment]] IN
      /\ Len(calls[p]) = 1
      /\ calls[p][1].params.titles = arguments[p].title
      /\ DOMAIN result[p] = {"content"}
      /\ result[p].content = <<[type |-> "text", text |-> <<"JSON", value>>]>>

\* A page with two revisions was read: the result holds the newer one.
C19_FirstRevisionReturned ==
  \E p \in Ended :
    /\ name[p] = "read_page"
    /\ HasArguments(p)
    /\ ErrorAnswers(p) = {}
    /\ "revisions" \in DOMAIN FirstPage(p)
    /\ Len(FirstPage(p).revisions) = 2
    /\ TextOf(result[p])[2].content = "wikitext"
    /\ TextOf(result[p])[2].lastEdit.user = "Merlin"

EditCalls(p) == {i \in 1..Len(calls[p]) : KindOfCall(p, i) = "edit"}

\* C20: every action=edit request is a POST of a create_page or update_page
\* invocation whose token is a csrf token the wiki has answered an
\* edit-token fetch with and a value getEditToken() has returned (the token
\* of the invocation's own fetch when it made one); it is the invocation's
\* last request, sent after every earlier request of the invocation (login,
\* token fetch) was answered without error; a create_page request carries
\* createonly=true and an update_page request carries no createonly.
C20_TokenBeforeWrite ==
  \A p \in Handlers : \A i \in EditCalls(p) :
    LET c == calls[p][i] IN
    /\ c.method = "POST"
    /\ name[p] \in WriteTools
    /\ c.params.token \in issued
    /\ c.params.token \in Range(tokenRets)
    /\ i = Len(calls[p])
    /\ \A j \in 1..(i - 1) :
         /\ KindOfCall(p, j) \in {"logintoken", "login", "csrf"}
         /\ Answered(p, j)
         /\ ~HasError(answers[p][j].data)
    /\ (i > 1 /\ KindOfCall(p, i - 1) = "csrf") =>
         c.params.token = answers[p][i - 1].data.query.tokens.csrftoken
    /\ c.params.title = arguments[p].title
    /\ c.params.text = arguments[p].content
    /\ name[p] = "create_page" =>
         ("createonly" \in DOMAIN c.params /\ c.params.createonly = "true")
    /\ name[p] = "update_page" => "createonly" \notin DOMAIN c.params

\* update_page sent its edit with the token an earlier invocation fetched.
C20_UpdateWithCachedToken ==
  \E p \in Handlers :
    /\ name[p] = "update_page"
    /\ Len(calls[p]) = 1
    /\ EditCalls(p) = {1}
    /\ calls[p][1].params.token = editToken
    /\ sent["csrf"] = 1

-----------------------------------------------------------------------------
(* The session after a failed write.                                       *)

\* The process whose response body is read in this step.
Reads(p) == stage[p] = "json" /\ stage'[p] # "json"

\* Once a write has been refused: the cached token, and the tokens of the
\* edit requests of the running invocations.
C21_RefusedState ==
  refused > 0 =>
    /\ editToken # Undefined
    /\ \A p \in Handlers : \A i \in EditCalls(p) :
         calls[p][i].params.token = editToken

\* The step in which an edit is refused, and every step after it.
C21_RefusedStep ==
  /\ \A p \in Handlers :
       (Reads(p) /\ refused' = refused + 1) =>
         /\ request[p].params.token = editToken
         /\ pc'[p] = "done"
         /\ UNCHANGED <<editToken, loggedIn>>
  /\ refused > 0 =>
       /\ UNCHANGED <<editToken, loggedIn>>
       /\ sent'["csrf"] = sent["csrf"]
       /\ sent'["logintoken"] = sent["logintoken"]
       /\ sent'["login"] = sent["login"]

\* C21: when the wiki answers an edit request with an error object (such as
\* badtoken) the invocation ends and editToken and loggedIn keep their
\* values; from then on no edit-token fetch and no login request is sent,
\* and every later edit request carries that same cached token.
C21_NoInvalidationOnFailure == []C21_RefusedState /\ [][C21_RefusedStep]_vars

\* A write was refused, and the next write, sent with the cached token and
\* without a fetch, was refused too.
C21_SecondWriteRefused ==
  /\ refused = 2
  /\ sent["csrf"] = 1
  /\ \E p \in Ended :
       /\ name[p] \in WriteTools
       /\ Len(calls[p]) = 1
       /\ calls[p][1].params.token = editToken
       /\ TextOf(result[p]) =
            <<"Error: ", "MediaWiki API error: ", "badtoken", " - ", "denied">>

\* C22: under any interleaving of concurrent invocations all action=edit
\* requests carry the same token, and a cached editToken is never
\* overwritten by a later fetch response.
C22_OneTokenForAllEdits ==
  /\ \A p, q \in Handlers : \A i \in EditCalls(p) : \A j \in EditCalls(q) :
       calls[p][i].params.token = calls[q][j].params.token
  /\ \A p \in Handlers : \A i \in EditCalls(p) :
       calls[p][i].params.token = editToken

\* C23: with credentials configured, once an edit token has been cached no
\* login request (login-token fetch or credential submit) is in flight, so
\* none is sent or answered underneath the token.
C23_NoLoginUnderToken ==
  (~Anonymous /\ editToken # Undefined) =>
    \A p \in Procs : pc[p] \notin {"login_token", "login_submit"}

TokenOrEditCalls(p) == {i \in 1..Len(calls[p]) : KindOfCall(p, i) \in {"csrf", "edit"}}

\* C24: with credentials configured, an edit-token fetch or an action=edit
\* request has been sent only if loggedIn is true; a create_page or
\* update_page invocation whose credential submit is rejected ends with an
\* isError result and has sent neither.
C24_NoWriteWhileLoggedOut ==
  ~Anonymous =>
    /\ (sent["csrf"] > 0 \/ sent["edit"] > 0) => loggedIn
    /\ \A p \in Handlers : TokenOrEditCalls(p) # {} => loggedIn
    /\ \A p \in Ended :
         (name[p] \in WriteTools /\ LoginRejected(p)) =>
           /\ IsErrorResult(result[p])
           /\ TokenOrEditCalls(p) = {}

\* A create_page whose login was rejected ended as an error.
C24_WriteEndedAtRejectedLogin ==
  /\ ~Anonymous
  /\ ~loggedIn
  /\ sent["edit"] = 0
  /\ \E p \in Ended :
       /\ name[p] = "create_page"
       /\ LoginRejected(p)
       /\ IsErrorResult(result[p])

-----------------------------------------------------------------------------
(* Termination.                                                            *)

\* The place of a request in an invocation: login-token fetch, credential
\* submit, edit-token fetch, the operation itself.
Rank(kind) ==
  CASE kind = "logintoken" -> 1
    [] kind = "login" -> 2
    [] kind = "csrf" -> 3
    [] OTHER -> 4

\* The requests of an invocation: at most four, each place taken at most
\* once and in order; a result exists exactly when the invocation has ended.
C25_Bounded ==
  \A p \in Handlers :
    /\ Len(calls[p]) <= 4
    /\ \A i, j \in 1..Len(calls[p]) :
         i < j => Rank(KindOfCall(p, i)) < Rank(KindOfCall(p, j))
    /\ (result[p] # NoResult) <=> (pc[p] = "done")

\* A result, once there, is delivered by the next step.
C25_OneResult ==
  \A p \in Handlers :
    result[p] # NoResult => (result'[p] = NoResult /\ pc'[p] = "idle")

====
